---- MODULE Spec2Model ----
(***************************************************************************)
(* Model of the Zap Huffman codec (src/proj3): HuffmanCoder::encoder and   *)
(* HuffmanCoder::decoder with the private methods they call, and the unit  *)
(* tests of unit_tests.h that drive the private methods directly.          *)
(*                                                                         *)
(* A char is a one-character string; a std::string is a sequence of chars. *)
(* A HuffmanTreeNode* is a record [val, freq, left, right] or Null.        *)
(***************************************************************************)
EXTENDS Integers, Sequences, FiniteSets, TLC

\* ---------------------------------------------------------------- bounds
MaxLen == 3          \* longest raw input
MaxTreeLen == 5      \* longest serialized tree of a file not written by encoder
MaxBits == 3         \* longest bit string of such a file
MaxFreq == 3         \* largest count in a frequency table handed to a test

Symbols == {"a", "b", "L", "I"}     \* byte values of the raw input
TreeChars == {"L", "I", "a"}        \* bytes of a foreign serialized tree
BitChars == {"0", "1", "x"}         \* characters of a foreign bit string
NUL == "NUL"                        \* the char '\0'

RECURSIVE SeqsUpTo(_, _)
SeqsUpTo(S, n) ==
    IF n = 0 THEN {<<>>}
    ELSE LET shorter == SeqsUpTo(S, n - 1)
         IN  shorter \cup {Append(s, c) : s \in {t \in shorter : Len(t) = n - 1}, c \in S}

Inputs == SeqsUpTo(Symbols, MaxLen)
TreeStrings == SeqsUpTo(TreeChars, MaxTreeLen)
BitStrings == SeqsUpTo(BitChars, MaxBits)

\* ------------------------------------------------------- HuffmanTreeNode
Null == [nil |-> TRUE]

\* NodeComparator: lhs is ordered below rhs in the priority queue
NodeComparator(lhs, rhs) == lhs.freq > rhs.freq

HuffmanTreeNode(val, freq, left, right) ==
    [val |-> val, freq |-> freq, left |-> left, right |-> right]

isLeaf(n) == n.left = Null /\ n.right = Null

\* a returned value or a thrown exception
Ok(v) == [ok |-> TRUE, val |-> v, what |-> ""]
Throw(msg) == [ok |-> FALSE, val |-> <<>>, what |-> msg]

\* ------------------------------------------------- countCharFrequencies
countCharFrequencies(text) ==
    [c \in {text[i] : i \in 1..Len(text)} |->
        Cardinality({i \in 1..Len(text) : text[i] = c})]

EmptyMap == [c \in {} |-> <<>>]

\* --------------------------------------------------- generateCharCodes
\* mutant: the right subtree gets the same bit as the left one
RECURSIVE generateCharCodes_sameBit(_, _, _)
generateCharCodes_sameBit(node, codes, code) ==
    IF node = Null THEN codes
    ELSE IF isLeaf(node) THEN (node.val :> code) @@ codes
    ELSE generateCharCodes_sameBit(node.right,
             generateCharCodes_sameBit(node.left, codes, code \o <<"0">>),
             code \o <<"0">>)

RECURSIVE generateCharCodes(_, _, _)
generateCharCodes(node, codes, code) ==
    IF node = Null THEN codes
    ELSE IF isLeaf(node) THEN (node.val :> code) @@ codes
    ELSE generateCharCodes(node.right,
             generateCharCodes(node.left, codes, code \o <<"0">>),
             code \o <<"1">>)

\* ----------------------------------------------------------- encodeText
RECURSIVE encodeLoop(_, _, _)
encodeLoop(text, codes, i) ==
    IF i > Len(text) THEN Ok(<<>>)
    ELSE IF text[i] \notin DOMAIN codes THEN Throw("out_of_range")
    ELSE LET rest == encodeLoop(text, codes, i + 1)
         IN  IF rest.ok THEN Ok(codes[text[i]] \o rest.val) ELSE rest

\* mutant: no special case for a table of one symbol
encodeText_noSingle(text, codes) == encodeLoop(text, codes, 1)

encodeText(text, codes) ==
    IF Cardinality(DOMAIN codes) = 1
    THEN Ok([i \in 1..Len(text) |-> "0"])
    ELSE encodeLoop(text, codes, 1)

\* ------------------------------------------------- serializeHuffmanTree
\* mutant: the right subtree is written before the left one
RECURSIVE serializeHuffmanTree_rightFirst(_)
serializeHuffmanTree_rightFirst(node) ==
    IF node = Null THEN <<>>
    ELSE IF isLeaf(node) THEN <<"L", node.val>>
    ELSE <<"I">> \o serializeHuffmanTree_rightFirst(node.right)
                 \o serializeHuffmanTree_rightFirst(node.left)

RECURSIVE serializeHuffmanTree(_)
serializeHuffmanTree(node) ==
    IF node = Null THEN <<>>
    ELSE IF isLeaf(node) THEN <<"L", node.val>>
    ELSE <<"I">> \o serializeHuffmanTree(node.left)
                 \o serializeHuffmanTree(node.right)

\* ----------------------------------------------- deserializeHuffmanTree
\* serialized_tree[index] of a const std::string, index counted from 0;
\* the element at index = size() is the terminating '\0'
CharAt(s, index) == IF index < Len(s) THEN s[index + 1] ELSE NUL

\* mutant: the symbol of a leaf is read without advancing past the tag
RECURSIVE deserializeHuffmanTreeHelper_tagAsVal(_, _)
deserializeHuffmanTreeHelper_tagAsVal(s, index) ==
    IF index >= Len(s) THEN [node |-> Null, index |-> index]
    ELSE IF CharAt(s, index) = "L"
         THEN [node |-> HuffmanTreeNode(CharAt(s, index), 0, Null, Null),
               index |-> index + 2]
         ELSE LET l == deserializeHuffmanTreeHelper_tagAsVal(s, index + 1)
                  r == deserializeHuffmanTreeHelper_tagAsVal(s, l.index)
              IN  [node |-> HuffmanTreeNode(NUL, 0, l.node, r.node),
                   index |-> r.index]

RECURSIVE deserializeHuffmanTreeHelper(_, _)
deserializeHuffmanTreeHelper(s, index) ==
    IF index >= Len(s) THEN [node |-> Null, index |-> index]
    ELSE IF CharAt(s, index) = "L"
         THEN [node |-> HuffmanTreeNode(CharAt(s, index + 1), 0, Null, Null),
               index |-> index + 2]
         ELSE LET l == deserializeHuffmanTreeHelper(s, index + 1)
                  r == deserializeHuffmanTreeHelper(s, l.index)
              IN  [node |-> HuffmanTreeNode(NUL, 0, l.node, r.node),
                   index |-> r.index]

deserializeHuffmanTree(s) ==
    IF s = <<>> THEN Null ELSE deserializeHuffmanTreeHelper(s, 0).node

\* ---------------------------------------------------------- phaseOne
RECURSIVE serialize_tree(_)
serialize_tree(node) ==
    IF node = Null THEN <<>>
    ELSE IF isLeaf(node) THEN <<"L">> \o <<node.val>>
    ELSE <<"I">> \o serialize_tree(node.left) \o serialize_tree(node.right)

\* mutant: a tag other than 'L' and 'I' gives no node
RECURSIVE deserialize_tree_pos_strictTag(_, _)
deserialize_tree_pos_strictTag(s, pos) ==
    IF pos >= Len(s) THEN [node |-> Null, pos |-> pos]
    ELSE IF CharAt(s, pos) = "L"
         THEN [node |-> HuffmanTreeNode(CharAt(s, pos + 1), 1, Null, Null),
               pos |-> pos + 2]
         ELSE IF CharAt(s, pos) # "I"
         THEN [node |-> Null, pos |-> pos + 1]
         ELSE LET l == deserialize_tree_pos_strictTag(s, pos + 1)
                  r == deserialize_tree_pos_strictTag(s, l.pos)
              IN  [node |-> HuffmanTreeNode(NUL, 1, l.node, r.node),
                   pos |-> r.pos]

\* deserialize_tree(serial_tree, pos)
RECURSIVE deserialize_tree_pos(_, _)
deserialize_tree_pos(s, pos) ==
    IF pos >= Len(s) THEN [node |-> Null, pos |-> pos]
    ELSE IF CharAt(s, pos) = "L"
         THEN [node |-> HuffmanTreeNode(CharAt(s, pos + 1), 1, Null, Null),
               pos |-> pos + 2]
         ELSE LET l == deserialize_tree_pos(s, pos + 1)
                  r == deserialize_tree_pos(s, l.pos)
              IN  [node |-> HuffmanTreeNode(NUL, 1, l.node, r.node),
                   pos |-> r.pos]

\* deserialize_tree(serial_tree)
deserialize_tree(s) == deserialize_tree_pos(s, 0).node

\* ----------------------------------------------------------- decodeText
\* mutant: the cursor is not reset to the root after a leaf
RECURSIVE decodeLoop_noReset(_, _, _, _, _)
decodeLoop_noReset(bits, i, curr, decoded, tree) ==
    IF i > Len(bits)
    THEN IF curr # tree THEN Throw("Encoding did not match Huffman tree.")
         ELSE Ok(decoded)
    ELSE LET moved == IF bits[i] = "0" THEN curr.left
                      ELSE IF bits[i] = "1" THEN curr.right
                      ELSE curr
         IN  IF moved = Null
             THEN Throw("Encoding did not match Huffman tree.")
             ELSE IF isLeaf(moved)
                  THEN decodeLoop_noReset(bits, i + 1, moved,
                                          Append(decoded, moved.val), tree)
                  ELSE decodeLoop_noReset(bits, i + 1, moved, decoded, tree)

\* mutant: no check that the cursor is back at the root at the end
RECURSIVE decodeLoop_noFinalCheck(_, _, _, _, _)
decodeLoop_noFinalCheck(bits, i, curr, decoded, tree) ==
    IF i > Len(bits)
    THEN Ok(decoded)
    ELSE LET moved == IF bits[i] = "0" THEN curr.left
                      ELSE IF bits[i] = "1" THEN curr.right
                      ELSE curr
         IN  IF moved = Null
             THEN Throw("Encoding did not match Huffman tree.")
             ELSE IF isLeaf(moved)
                  THEN decodeLoop_noFinalCheck(bits, i + 1, tree,
                                               Append(decoded, moved.val), tree)
                  ELSE decodeLoop_noFinalCheck(bits, i + 1, moved, decoded, tree)

RECURSIVE decodeLoop(_, _, _, _, _)
decodeLoop(bits, i, curr, decoded, tree) ==
    IF i > Len(bits)
    THEN IF curr # tree THEN Throw("Encoding did not match Huffman tree.")
         ELSE Ok(decoded)
    ELSE LET moved == IF bits[i] = "0" THEN curr.left
                      ELSE IF bits[i] = "1" THEN curr.right
                      ELSE curr
         IN  IF moved = Null
             THEN Throw("Encoding did not match Huffman tree.")
             ELSE IF isLeaf(moved)
                  THEN decodeLoop(bits, i + 1, tree, Append(decoded, moved.val), tree)
                  ELSE decodeLoop(bits, i + 1, moved, decoded, tree)

decodeText(bits, tree) ==
    IF tree = Null THEN Throw("Huffman tree is empty.")
    ELSE decodeLoop(bits, 1, tree, <<>>, tree)

\* ------------------------------------------------------------- state
VARIABLES
    pc,               \* position of the running operation
    mode,             \* "zap", "unzap", or the unit test that runs
    input_text,       \* raw input of encoder / of the round-trip test
    char_frequencies, \* the frequency table
    pq,               \* the priority queue of buildHuffmanTree
    merges,           \* merge steps done by buildHuffmanTree
    root,             \* root returned by buildHuffmanTree
    char_codes,       \* code table
    encoded_text,     \* result of encodeText
    serialized_tree,  \* result of serializeHuffmanTree
    written,          \* what encoder handed to BinaryIO::writeFile
    file_data,        \* what decoder got from BinaryIO::readFile
    dec_root,         \* root inside decoder / tree rebuilt by the test
    decoded_text,     \* text decoded
    called_decodeText,\* decoder went through decodeText
    null_deref,       \* a member of a null HuffmanTreeNode* was used
    outcome,          \* how the operation ended
    error             \* what() of the exception that ended it

vars == <<pc, mode, input_text, char_frequencies, pq, merges, root,
          char_codes, encoded_text, serialized_tree, written, file_data,
          dec_root, decoded_text, called_decodeText, null_deref, outcome,
          error>>

NoFile == [absent |-> TRUE]
FilePair(tree, bits) == [tree |-> tree, bits |-> bits]

FreqTables ==
    UNION {[S -> 1..MaxFreq] : S \in SUBSET Symbols}

Init ==
    /\ pc = "start"
    /\ mode = "none"
    /\ input_text = <<>>
    /\ char_frequencies = EmptyMap
    /\ pq = {}
    /\ merges = 0
    /\ root = Null
    /\ char_codes = EmptyMap
    /\ encoded_text = <<>>
    /\ serialized_tree = <<>>
    /\ written = NoFile
    /\ file_data = NoFile
    /\ dec_root = Null
    /\ decoded_text = <<>>
    /\ called_decodeText = FALSE
    /\ null_deref = FALSE
    /\ outcome = "none"
    /\ error = ""

\* ------------------------------------------------------------ encoder
\* encoder up to the call of buildHuffmanTree
\* mutant: no check for an empty input
encoder_begin_noEmptyCheck ==
    /\ pc = "start"
    /\ \E b \in Inputs :
        /\ input_text' = b
        /\ mode' = "zap"
        /\ char_frequencies' = countCharFrequencies(b)
        /\ pc' = "call_build"
        /\ UNCHANGED outcome
    /\ UNCHANGED <<pq, merges, root, char_codes, encoded_text,
                   serialized_tree, written, file_data, dec_root,
                   decoded_text, called_decodeText, null_deref, error>>

encoder_begin ==
    /\ pc = "start"
    /\ \E b \in Inputs :
        /\ input_text' = b
        /\ mode' = "zap"
        /\ IF b = <<>>
           THEN /\ outcome' = "empty"
                /\ pc' = "done"
                /\ UNCHANGED char_frequencies
           ELSE /\ char_frequencies' = countCharFrequencies(b)
                /\ pc' = "call_build"
                /\ UNCHANGED outcome
    /\ UNCHANGED <<pq, merges, root, char_codes, encoded_text,
                   serialized_tree, written, file_data, dec_root,
                   decoded_text, called_decodeText, null_deref, error>>

\* ---------------------------------------------------- buildHuffmanTree
buildHuffmanTree_push ==
    /\ pc = "call_build"
    /\ pq' = {HuffmanTreeNode(c, char_frequencies[c], Null, Null) :
                 c \in DOMAIN char_frequencies}
    /\ merges' = 0
    /\ pc' = "merge"
    /\ UNCHANGED <<mode, input_text, char_frequencies, root, char_codes,
                   encoded_text, serialized_tree, written, file_data,
                   dec_root, decoded_text, called_decodeText, null_deref,
                   outcome, error>>

\* the nodes pq.top() may return: none is ordered below another
Top(q) == {t \in q : \A m \in q : ~NodeComparator(t, m)}

\* mutant: the second node popped is not the lowest of the rest
buildHuffmanTree_merge_anyRight ==
    /\ pc = "merge"
    /\ Cardinality(pq) > 1
    /\ \E left \in Top(pq) :
         \E right \in pq \ {left} :
            pq' = (pq \ {left, right}) \cup
                  {HuffmanTreeNode(NUL, left.freq + right.freq, left, right)}
    /\ merges' = merges + 1
    /\ UNCHANGED <<pc, mode, input_text, char_frequencies, root, char_codes,
                   encoded_text, serialized_tree, written, file_data,
                   dec_root, decoded_text, called_decodeText, null_deref,
                   outcome, error>>

\* mutant: the parent gets the frequency of its left child only
buildHuffmanTree_merge_leftFreq ==
    /\ pc = "merge"
    /\ Cardinality(pq) > 1
    /\ \E left \in Top(pq) :
         \E right \in Top(pq \ {left}) :
            pq' = (pq \ {left, right}) \cup
                  {HuffmanTreeNode(NUL, left.freq, left, right)}
    /\ merges' = merges + 1
    /\ UNCHANGED <<pc, mode, input_text, char_frequencies, root, char_codes,
                   encoded_text, serialized_tree, written, file_data,
                   dec_root, decoded_text, called_decodeText, null_deref,
                   outcome, error>>

\* mutant: the second node is read with top() but not popped
buildHuffmanTree_merge_noSecondPop ==
    /\ pc = "merge"
    /\ Cardinality(pq) > 1
    /\ \E left \in Top(pq) :
         \E right \in Top(pq \ {left}) :
            pq' = (pq \ {left}) \cup
                  {HuffmanTreeNode(NUL, left.freq + right.freq, left, right)}
    /\ merges' = merges + 1
    /\ UNCHANGED <<pc, mode, input_text, char_frequencies, root, char_codes,
                   encoded_text, serialized_tree, written, file_data,
                   dec_root, decoded_text, called_decodeText, null_deref,
                   outcome, error>>

buildHuffmanTree_merge ==
    /\ pc = "merge"
    /\ Cardinality(pq) > 1
    /\ \E left \in Top(pq) :
         \E right \in Top(pq \ {left}) :
            pq' = (pq \ {left, right}) \cup
                  {HuffmanTreeNode(NUL, left.freq + right.freq, left, right)}
    /\ merges' = merges + 1
    /\ UNCHANGED <<pc, mode, input_text, char_frequencies, root, char_codes,
                   encoded_text, serialized_tree, written, file_data,
                   dec_root, decoded_text, called_decodeText, null_deref,
                   outcome, error>>

\* return pq.top(); top() of an empty queue is undefined behaviour: the
\* process crashes, or some pointer value comes back
buildHuffmanTree_return ==
    /\ pc = "merge"
    /\ Cardinality(pq) <= 1
    /\ IF pq # {}
       THEN /\ root' \in pq
            /\ pc' = "built"
            /\ UNCHANGED outcome
       ELSE \/ /\ outcome' = "crash"
               /\ pc' = "done"
               /\ UNCHANGED root
            \/ /\ root' \in {Null} \cup
                       {HuffmanTreeNode(c, 0, Null, Null) : c \in Symbols}
               /\ pc' = "built"
               /\ UNCHANGED outcome
    /\ UNCHANGED <<mode, input_text, char_frequencies, pq, merges,
                   char_codes, encoded_text, serialized_tree, written,
                   file_data, dec_root, decoded_text, called_decodeText,
                   null_deref, error>>

\* encoder after buildHuffmanTree returned
encoder_finish ==
    /\ pc = "built"
    /\ mode = "zap"
    /\ LET codes == generateCharCodes(root, EmptyMap, <<>>)
           enc == encodeText(input_text, codes)
       IN  /\ char_codes' = codes
           /\ IF enc.ok
              THEN /\ encoded_text' = enc.val
                   /\ serialized_tree' = serializeHuffmanTree(root)
                   /\ written' = FilePair(serializeHuffmanTree(root), enc.val)
                   /\ outcome' = "success"
                   /\ UNCHANGED error
              ELSE /\ outcome' = "exception"
                   /\ error' = enc.what
                   /\ UNCHANGED <<encoded_text, serialized_tree, written>>
    /\ pc' = "zapped"
    /\ UNCHANGED <<mode, input_text, char_frequencies, pq, merges, root,
                   file_data, dec_root, decoded_text, called_decodeText,
                   null_deref>>

\* ------------------------------------------------------------ decoder
\* the files BinaryIO::readFile can hand to decoder: the pair encoder
\* wrote, that pair with other bits, or a file encoder never wrote
ReadableFiles ==
    IF written # NoFile
    THEN {written} \cup {FilePair(written.tree, b) : b \in BitStrings}
    ELSE {FilePair(t, b) : t \in TreeStrings, b \in BitStrings}

allZeros(bits) == \A i \in 1..Len(bits) : bits[i] = "0"

\* decoder's choice between the leaf-root shortcut and decodeText
decoder_decoded_text(tree, bits) ==
    IF isLeaf(tree)
    THEN IF allZeros(bits)
         THEN Ok([i \in 1..Len(bits) |-> tree.val])
         ELSE decodeText(bits, tree)
    ELSE decodeText(bits, tree)

decoder ==
    /\ pc \in {"start", "zapped"}
    /\ pc = "zapped" => outcome = "success"
    /\ \E fd \in ReadableFiles :
        LET tree == deserializeHuffmanTree(fd.tree)
        IN  /\ file_data' = fd
            /\ dec_root' = tree
            /\ IF tree = Null
               THEN \* root->isLeaf() on a null pointer: undefined behaviour
                    /\ null_deref' = TRUE
                    /\ called_decodeText' \in BOOLEAN
                    /\ \/ /\ outcome' = "crash"
                          /\ UNCHANGED <<decoded_text, error>>
                       \/ /\ called_decodeText'
                          /\ outcome' = "exception"
                          /\ error' = decodeText(fd.bits, tree).what
                          /\ UNCHANGED decoded_text
                       \/ /\ ~called_decodeText'
                          /\ allZeros(fd.bits)
                          /\ outcome' = "decoded"
                          /\ \E c \in Symbols :
                               decoded_text' = [i \in 1..Len(fd.bits) |-> c]
                          /\ UNCHANGED error
               ELSE LET res == decoder_decoded_text(tree, fd.bits)
                    IN  /\ called_decodeText' =
                               ~(isLeaf(tree) /\ allZeros(fd.bits))
                        /\ UNCHANGED null_deref
                        /\ IF res.ok
                           THEN /\ decoded_text' = res.val
                                /\ outcome' = "decoded"
                                /\ UNCHANGED error
                           ELSE /\ outcome' = "exception"
                                /\ error' = res.what
                                /\ UNCHANGED decoded_text
    /\ mode' = "unzap"
    /\ pc' = "unzapped"
    /\ UNCHANGED <<input_text, char_frequencies, pq, merges, root,
                   char_codes, encoded_text, serialized_tree, written>>

\* --------------------------------------------------------- unit tests
\* a test hands a frequency table to buildHuffmanTree
testBuildHuffmanTree_begin ==
    /\ pc = "start"
    /\ \E table \in FreqTables : char_frequencies' = table
    /\ mode' = "test_tree"
    /\ pc' = "call_build"
    /\ UNCHANGED <<input_text, pq, merges, root, char_codes, encoded_text,
                   serialized_tree, written, file_data, dec_root,
                   decoded_text, called_decodeText, null_deref, outcome,
                   error>>

\* serialize the tree, deserialize the string
testSerializeDeserializeTree ==
    /\ pc = "built"
    /\ mode = "test_tree"
    /\ serialized_tree' = serializeHuffmanTree(root)
    /\ dec_root' = deserializeHuffmanTree(serializeHuffmanTree(root))
    /\ pc' = "tested"
    /\ UNCHANGED <<mode, input_text, char_frequencies, pq, merges, root,
                   char_codes, encoded_text, written, file_data,
                   decoded_text, called_decodeText, null_deref, outcome,
                   error>>

\* a test builds the tree of a text, then encodes and decodes the text
testEncodeDecodeText_begin ==
    /\ pc = "start"
    /\ \E b \in Inputs :
        /\ input_text' = b
        /\ char_frequencies' = countCharFrequencies(b)
    /\ mode' = "test_codec"
    /\ pc' = "call_build"
    /\ UNCHANGED <<pq, merges, root, char_codes, encoded_text,
                   serialized_tree, written, file_data, dec_root,
                   decoded_text, called_decodeText, null_deref, outcome,
                   error>>

testEncodeDecodeText ==
    /\ pc = "built"
    /\ mode = "test_codec"
    /\ LET codes == generateCharCodes(root, EmptyMap, <<>>)
           enc == encodeText(input_text, codes)
           dec == IF enc.ok THEN decodeText(enc.val, root) ELSE enc
       IN  /\ char_codes' = codes
           /\ encoded_text' = enc.val
           /\ decoded_text' = dec.val
           /\ outcome' = IF dec.ok THEN "returned" ELSE "exception"
           /\ error' = dec.what
    /\ pc' = "tested"
    /\ UNCHANGED <<mode, input_text, char_frequencies, pq, merges, root,
                   serialized_tree, written, file_data, dec_root,
                   called_decodeText, null_deref>>

\* a test encodes and decodes further strings with the table of one tree:
\* here the text the tree was built for with one more symbol put into it
InsertAt(text, k, c) ==
    SubSeq(text, 1, k) \o <<c>> \o SubSeq(text, k + 1, Len(text))

testEncodeDecodeTextComprehensive ==
    /\ pc = "built"
    /\ mode = "test_codec"
    /\ \E c \in Symbols, k \in 0..Len(input_text) :
        LET originalText == InsertAt(input_text, k, c)
            codes == generateCharCodes(root, EmptyMap, <<>>)
            enc == encodeText(originalText, codes)
            dec == IF enc.ok THEN decodeText(enc.val, root) ELSE enc
        IN  /\ input_text' = originalText
            /\ char_codes' = codes
            /\ encoded_text' = enc.val
            /\ decoded_text' = dec.val
            /\ outcome' = IF ~enc.ok THEN "encode_exception"
                          ELSE IF dec.ok THEN "returned" ELSE "exception"
            /\ error' = dec.what
    /\ pc' = "tested_strings"
    /\ UNCHANGED <<mode, char_frequencies, pq, merges, root,
                   serialized_tree, written, file_data, dec_root,
                   called_decodeText, null_deref>>

\* the free deserialize_tree on a string
test_deserialize_tree ==
    /\ pc = "start"
    /\ \E serial_tree \in TreeStrings :
        /\ serialized_tree' = serial_tree
        /\ dec_root' = deserialize_tree(serial_tree)
    /\ mode' = "test_phaseOne"
    /\ pc' = "tested_phaseOne"
    /\ UNCHANGED <<input_text, char_frequencies, pq, merges, root,
                   char_codes, encoded_text, written, file_data,
                   decoded_text, called_decodeText, null_deref, outcome,
                   error>>

\* the tree a test hands to serialize_tree: one buildHuffmanTree returned
\* or one deserialize_tree returned
TestedTree == IF mode = "test_tree" THEN root ELSE dec_root

\* the free serialize_tree on a tree
test_serialize_tree ==
    /\ \/ pc = "built" /\ mode = "test_tree"
       \/ pc = "tested_phaseOne" /\ mode = "test_phaseOne"
    /\ serialized_tree' = serialize_tree(TestedTree)
    /\ pc' = "serialized_phaseOne"
    /\ UNCHANGED <<mode, input_text, char_frequencies, pq, merges, root,
                   char_codes, encoded_text, written, file_data, dec_root,
                   decoded_text, called_decodeText, null_deref, outcome,
                   error>>

\* -------------------------------------------------------- specification
Next ==
    \/ encoder_begin
    \/ buildHuffmanTree_push
    \/ buildHuffmanTree_merge
    \/ buildHuffmanTree_return
    \/ encoder_finish
    \/ decoder
    \/ testBuildHuffmanTree_begin
    \/ testSerializeDeserializeTree
    \/ testEncodeDecodeText_begin
    \/ testEncodeDecodeText
    \/ testEncodeDecodeTextComprehensive
    \/ test_deserialize_tree
    \/ test_serialize_tree

Spec == Init /\ [][Next]_vars

TypeOK ==
    /\ pc \in {"start", "call_build", "merge", "built", "zapped",
               "unzapped", "tested", "tested_strings",
               "tested_phaseOne", "serialized_phaseOne", "done"}
    /\ outcome \in {"none", "empty", "success", "decoded", "returned",
                    "exception", "encode_exception", "crash"}
    /\ null_deref \in BOOLEAN

\* ------------------------------------------------- vocabulary of the claims
IsPrefix(p, s) == Len(p) <= Len(s) /\ SubSeq(s, 1, Len(p)) = p

Distinct(table) == Cardinality(DOMAIN table)

\* shape of a tree and the symbols at its leaf positions, without the
\* frequencies and the values of internal nodes
RECURSIVE Shape(_)
Shape(n) ==
    IF n = Null THEN Null
    ELSE IF n.left = Null /\ n.right = Null THEN [leaf |-> n.val]
    ELSE [left |-> Shape(n.left), right |-> Shape(n.right)]

RECURSIVE SumOver(_, _)
SumOver(S, f) ==
    IF S = {} THEN 0
    ELSE LET c == CHOOSE x \in S : TRUE
         IN  f[c] + SumOver(S \ {c}, f)

\* sum over the symbols of code length x frequency
WeightedLength(codes, table) ==
    SumOver(DOMAIN table, [c \in DOMAIN table |-> Len(codes[c]) * table[c]])

\* the code lengths of the binary prefix codes of a symbol set are the
\* length vectors that satisfy Kraft's inequality
MaxCodeLen == Cardinality(Symbols)

RECURSIVE Pow2(_)
Pow2(n) == IF n = 0 THEN 1 ELSE 2 * Pow2(n - 1)

KraftOK(lens) ==
    SumOver(DOMAIN lens, [c \in DOMAIN lens |-> Pow2(MaxCodeLen - lens[c])])
        <= Pow2(MaxCodeLen)

PrefixCodeCosts(table) ==
    {SumOver(DOMAIN table, [c \in DOMAIN table |-> lens[c] * table[c]]) :
        lens \in {l \in [DOMAIN table -> 0..MaxCodeLen] : KraftOK(l)}}

\* the tree in root was returned by buildHuffmanTree for a table with a symbol
Built ==
    /\ pc \in {"built", "zapped", "unzapped", "tested", "tested_strings",
               "serialized_phaseOne"}
    /\ char_frequencies # EmptyMap

CodecTested == pc = "tested" /\ mode = "test_codec"

\* ------------------------------------------------------------------ C1
\* C1 as stated: for every byte sequence b, the empty one and those of one
\* distinct symbol included, decodeText(encodeText(b, codes), root) = b with
\* root = buildHuffmanTree(freqs(b)) and codes = generateCharCodes(root).
C1_RoundTripEveryInput ==
    CodecTested => outcome = "returned" /\ decoded_text = input_text

\* C1 amended: the round trip through encodeText and decodeText returns b
\* for every byte sequence b that has at least two distinct symbols.
C1_RoundTrip ==
    (CodecTested /\ Distinct(char_frequencies) >= 2)
        => outcome = "returned" /\ decoded_text = input_text

C1_Witness ==
    /\ CodecTested
    /\ Distinct(char_frequencies) >= 3
    /\ Len(input_text) >= 3
    /\ decoded_text = input_text

\* ------------------------------------------------------------------ C2
\* C2: for every non-empty b, encoder followed by decoder on the pair
\* encoder wrote gives back exactly b, with one distinct symbol or several.
C2_EndToEnd ==
    (pc = "unzapped" /\ written # NoFile /\ file_data = written)
        => outcome = "decoded" /\ decoded_text = input_text

C2_Witness ==
    /\ pc = "unzapped"
    /\ file_data = written
    /\ Distinct(char_frequencies) >= 3
    /\ Len(input_text) >= 3
    /\ decoded_text = input_text

\* ------------------------------------------------------------------ C3
\* C3: in the code table generated from a tree built by buildHuffmanTree no
\* symbol's code is a prefix of another symbol's code.
C3_PrefixFree ==
    (Built /\ (pc = "zapped" \/ CodecTested))
        => /\ DOMAIN char_codes = DOMAIN char_frequencies
           /\ \A c, d \in DOMAIN char_codes :
                 c # d => ~IsPrefix(char_codes[c], char_codes[d])

C3_Witness ==
    /\ Built
    /\ pc = "zapped"
    /\ Distinct(char_frequencies) >= 3
    /\ \E c, d \in DOMAIN char_codes : Len(char_codes[c]) < Len(char_codes[d])

\* ------------------------------------------------------------------ C4
\* C4: whichever equal-frequency node the queue picks, the sum of code
\* length x frequency of the tree returned by buildHuffmanTree is the
\* minimum over all binary prefix codes of the frequency table.
C4_Optimal ==
    (Built /\ pc = "built")
        => LET cost == WeightedLength(generateCharCodes(root, EmptyMap, <<>>),
                                      char_frequencies)
           IN  /\ cost \in PrefixCodeCosts(char_frequencies)
               /\ \A other \in PrefixCodeCosts(char_frequencies) : cost <= other

C4_Witness ==
    /\ Built
    /\ pc = "built"
    /\ mode = "test_tree"
    /\ Distinct(char_frequencies) = 4
    /\ \E c, d \in DOMAIN char_frequencies :
           char_frequencies[c] = char_frequencies[d] /\ c # d
    /\ \E c, d \in DOMAIN char_frequencies :
           char_frequencies[c] < char_frequencies[d]
    /\ Shape(root.left.left) # Null /\ isLeaf(root.right)

\* ------------------------------------------------------------------ C5
\* C5: for every tree t built by buildHuffmanTree, the one-leaf tree
\* included, deserializeHuffmanTree(serializeHuffmanTree(t)) has the shape
\* of t with the same symbol at every leaf position, and the parse consumes
\* the whole string.
C5_SerializationRoundTrip ==
    (Built /\ pc = "tested" /\ mode = "test_tree")
        => /\ Shape(dec_root) = Shape(root)
           /\ deserializeHuffmanTreeHelper(serialized_tree, 0).index
                  = Len(serialized_tree)

C5_Witness ==
    /\ Built
    /\ pc = "tested"
    /\ mode = "test_tree"
    /\ Distinct(char_frequencies) = 4
    /\ Shape(dec_root) = Shape(root)
    /\ Len(serialized_tree) = 11

\* ------------------------------------------------------------------ C6
IsBitString(bits) == \A i \in 1..Len(bits) : bits[i] \in {"0", "1"}

\* the paths from a node to the leaves below it
RECURSIVE LeafPaths(_)
LeafPaths(n) ==
    IF n = Null THEN {}
    ELSE IF n.left = Null /\ n.right = Null THEN {<<>>}
    ELSE {<<"0">> \o p : p \in LeafPaths(n.left)}
             \cup {<<"1">> \o p : p \in LeafPaths(n.right)}

\* bits is a concatenation of codes: it ends on a symbol boundary
RECURSIVE Segmentable(_, _)
Segmentable(bits, paths) ==
    \/ bits = <<>>
    \/ \E p \in paths :
          /\ p # <<>>
          /\ IsPrefix(p, bits)
          /\ Segmentable(SubSeq(bits, Len(p) + 1, Len(bits)), paths)

DecodeTextCalled ==
    /\ pc = "unzapped"
    /\ dec_root # Null
    /\ called_decodeText
    /\ IsBitString(file_data.bits)

\* C6: decodeText of a bit string against a tree succeeds exactly when the
\* bits are a concatenation of codes of the tree (they end on a symbol
\* boundary); a bit that leads to a missing child or a truncated last code
\* makes it fail with an error, and then no output is returned.
C6_MalformedDecode ==
    DecodeTextCalled
        => /\ outcome = "decoded"
                <=> Segmentable(file_data.bits, LeafPaths(dec_root))
           /\ outcome # "decoded"
                => /\ outcome = "exception"
                   /\ error = "Encoding did not match Huffman tree."
                   /\ decoded_text = <<>>

\* a complete code followed by a truncated one
C6_Witness ==
    /\ DecodeTextCalled
    /\ outcome = "exception"
    /\ decoded_text = <<>>
    /\ \E p, q \in LeafPaths(dec_root) :
          \E k \in 1..(Len(q) - 1) :
             /\ p # <<>>
             /\ file_data.bits = p \o SubSeq(q, 1, k)

\* ------------------------------------------------------------------ C7
Zeros(n) == [i \in 1..n |-> "0"]

SingleSymbol(text) ==
    /\ Len(text) >= 1
    /\ \A i \in 1..Len(text) : text[i] = text[1]

\* C7: for an input of n >= 1 occurrences of one symbol s, encodeText
\* returns n '0' characters, and decoder given these bits and the one-leaf
\* tree of s returns the n occurrences of s.
C7_SingleSymbol ==
    /\ (pc = "zapped" /\ SingleSymbol(input_text))
          => /\ outcome = "success"
             /\ encoded_text = Zeros(Len(input_text))
             /\ written = FilePair(<<"L", input_text[1]>>, encoded_text)
    /\ (pc = "unzapped" /\ file_data = written /\ SingleSymbol(input_text))
          => /\ encoded_text = Zeros(Len(input_text))
             /\ Shape(dec_root) = [leaf |-> input_text[1]]
             /\ outcome = "decoded"
             /\ decoded_text = input_text

C7_Witness ==
    /\ pc = "unzapped"
    /\ file_data = written
    /\ input_text = <<"L", "L", "L">>
    /\ encoded_text = <<"0", "0", "0">>
    /\ decoded_text = input_text

\* ------------------------------------------------------------------ C8
\* C8: when the root of the tree is a leaf, decoding a bit string with any
\* character other than '0' in it fails with an error and emits no symbol.
C8_SingleLeafRejectsForeign ==
    (/\ pc = "unzapped"
     /\ dec_root # Null
     /\ isLeaf(dec_root)
     /\ ~allZeros(file_data.bits))
        => /\ outcome = "exception"
           /\ decoded_text = <<>>

\* ------------------------------------------------------------------ C9
\* index after a tree of the grammar  T ::= 'L' byte | 'I' T T  that starts
\* at index i of s, or -1 when s has no such tree there
RECURSIVE GrammarEnd(_, _)
GrammarEnd(s, i) ==
    IF i < 0 \/ i >= Len(s) THEN -1
    ELSE IF s[i + 1] = "L" THEN (IF i + 1 < Len(s) THEN i + 2 ELSE -1)
    ELSE IF s[i + 1] = "I" THEN GrammarEnd(s, GrammarEnd(s, i + 1))
    ELSE -1

\* s ends in the middle of a parse or has a tag other than 'L' and 'I'
Malformed(s) == s # <<>> /\ GrammarEnd(s, 0) = -1

\* C9: deserializing a non-empty string that ends in the middle of a parse
\* or has a tag byte other than 'L' or 'I' yields an error, never a tree.
C9_MalformedTree ==
    (pc = "unzapped" /\ Malformed(file_data.tree))
        => /\ dec_root = Null
           /\ outcome = "exception"

\* ----------------------------------------------------------------- C10
\* C10: the empty string deserializes to a null tree and decoder never
\* uses a member of that null root.
C10_AbsentTreeNotDereferenced ==
    (pc = "unzapped" /\ file_data.tree = <<>>)
        => /\ dec_root = Null
           /\ ~null_deref

\* ----------------------------------------------------------------- C11
\* C11: for every code table and every input with a symbol that has no
\* entry in the table, encodeText raises an error instead of returning a
\* bit string, also when the table has exactly one entry.
C11_MissingSymbolFails ==
    (/\ pc = "tested_strings"
     /\ char_codes = generateCharCodes(root, EmptyMap, <<>>)
     /\ char_frequencies # EmptyMap
     /\ \E i \in 1..Len(input_text) : input_text[i] \notin DOMAIN char_codes)
        => outcome = "encode_exception"

\* ----------------------------------------------------------------- C12
\* every internal node carries the sum of the frequencies of its children
RECURSIVE FreqSumsOK(_)
FreqSumsOK(n) ==
    \/ n = Null
    \/ n.left = Null /\ n.right = Null
    \/ /\ n.left # Null
       /\ n.right # Null
       /\ n.freq = n.left.freq + n.right.freq
       /\ FreqSumsOK(n.left)
       /\ FreqSumsOK(n.right)

\* C12: for every table of two or more symbols the root returned by
\* buildHuffmanTree has a left and a right child and the sum of all
\* frequencies of the table, and every internal node has the sum of the
\* frequencies of its two children.
C12_RootFrequency ==
    (Built /\ pc = "built" /\ Distinct(char_frequencies) >= 2)
        => /\ root.left # Null
           /\ root.right # Null
           /\ root.freq = SumOver(DOMAIN char_frequencies, char_frequencies)
           /\ FreqSumsOK(root)

C12_Witness ==
    /\ Built
    /\ pc = "built"
    /\ char_frequencies = [c \in {"a", "b", "L"} |->
                              IF c = "a" THEN 3 ELSE IF c = "b" THEN 2 ELSE 1]
    /\ root.freq = 6
    /\ root.left # Null
    /\ root.right # Null

\* ----------------------------------------------------------------- C13
\* C13: for an empty raw input encoder ends normally, reporting the empty
\* input, without a call of buildHuffmanTree, without a tree string or
\* bits, and without writing the output.
C13_EmptyInput ==
    (mode = "zap" /\ input_text = <<>>)
        => /\ pc = "done"
           /\ outcome = "empty"
           /\ error = ""
           /\ pq = {}
           /\ merges = 0
           /\ root = Null
           /\ char_codes = EmptyMap
           /\ serialized_tree = <<>>
           /\ encoded_text = <<>>
           /\ written = NoFile

C13_Witness ==
    /\ mode = "zap"
    /\ input_text = <<>>
    /\ pc = "done"
    /\ outcome = "empty"
    /\ written = NoFile

\* ----------------------------------------------------------------- C14
\* a node and all nodes below it have no child or two children
RECURSIVE StrictBinary(_)
StrictBinary(n) ==
    \/ n.left = Null /\ n.right = Null
    \/ /\ n.left # Null
       /\ n.right # Null
       /\ StrictBinary(n.left)
       /\ StrictBinary(n.right)

\* the symbols at the childless nodes of a tree, from left to right
RECURSIVE LeafVals(_)
LeafVals(n) ==
    IF n = Null THEN <<>>
    ELSE IF n.left = Null /\ n.right = Null THEN <<n.val>>
    ELSE LeafVals(n.left) \o LeafVals(n.right)

RECURSIVE ConcatLeafVals(_)
ConcatLeafVals(forest) ==
    IF forest = {} THEN <<>>
    ELSE LET n == CHOOSE x \in forest : TRUE
         IN  LeafVals(n) \o ConcatLeafVals(forest \ {n})

\* each symbol of the table is at exactly one leaf, and no other leaf exists
LeavesAreTable(leaves, table) ==
    /\ Len(leaves) = Cardinality(DOMAIN table)
    /\ {leaves[i] : i \in 1..Len(leaves)} = DOMAIN table

\* C14: after every merge step and in the tree buildHuffmanTree returns
\* each node has no child or two children, each symbol of the table is the
\* value of exactly one leaf and there is no other leaf; a table of exactly
\* one symbol gives a root that is a leaf, with no merge step.
C14_TreeShape ==
    /\ (pc = "merge" /\ char_frequencies # EmptyMap)
          => /\ \A n \in pq : StrictBinary(n)
             /\ LeavesAreTable(ConcatLeafVals(pq), char_frequencies)
             /\ Cardinality(pq) + merges = Distinct(char_frequencies)
    /\ (Built /\ pc = "built")
          => /\ StrictBinary(root)
             /\ LeavesAreTable(LeafVals(root), char_frequencies)
             /\ merges = Distinct(char_frequencies) - 1
             /\ Distinct(char_frequencies) = 1
                   => /\ isLeaf(root)
                      /\ root.val \in DOMAIN char_frequencies
                      /\ merges = 0

C14_Witness ==
    /\ pc = "merge"
    /\ Distinct(char_frequencies) = 4
    /\ merges = 2
    /\ Cardinality(pq) = 2
    /\ \A n \in pq : StrictBinary(n)
    /\ \E n \in pq : Len(LeafVals(n)) = 3

\* ----------------------------------------------------------------- C15
\* C15: for every tree (null, one leaf, larger) serialize_tree returns the
\* string serializeHuffmanTree returns, 'L' + symbol for a leaf, 'I' + left
\* + right for an internal node and the empty string for null; for every
\* string deserialize_tree returns a tree of the shape and leaf symbols of
\* the tree deserializeHuffmanTree returns.
C15_SerializersAgree ==
    /\ pc = "serialized_phaseOne"
          => /\ serialized_tree = serializeHuffmanTree(TestedTree)
             /\ TestedTree = Null => serialized_tree = <<>>
             /\ (TestedTree # Null /\ isLeaf(TestedTree))
                   => serialized_tree = <<"L", TestedTree.val>>
             /\ (TestedTree # Null /\ ~isLeaf(TestedTree))
                   => serialized_tree =
                         <<"I">> \o serializeHuffmanTree(TestedTree.left)
                                 \o serializeHuffmanTree(TestedTree.right)
    /\ pc = "tested_phaseOne"
          => Shape(dec_root) = Shape(deserializeHuffmanTree(serialized_tree))

C15_Witness ==
    /\ pc = "serialized_phaseOne"
    /\ mode = "test_tree"
    /\ Distinct(char_frequencies) = 3
    /\ Len(serialized_tree) = 8
    /\ serialized_tree = serializeHuffmanTree(root)
    /\ Shape(deserialize_tree(serialized_tree)) = Shape(root)

====
